---- MODULE Spec2Model ----
(***************************************************************************)
(* Meeting recorder client (frontend/app/index.tsx, second version of the  *)
(* screen, with hooks/useCustomAlert.tsx and components/CustomAlert.tsx):  *)
(* the recording controller, the create -> upload -> trigger chain, the    *)
(* status poll loop, the meeting list with its persisted mirror, and the   *)
(* alert dialog.                                                           *)
(*                                                                         *)
(* Every handler is an async function: one action per segment between two  *)
(* awaits.  A segment runs to completion on the UI thread, so it is one    *)
(* atomic step; other handlers interleave only at the awaits.              *)
(*                                                                         *)
(* Meetings are identified by their id.  The meeting created by recording  *)
(* session s gets id s; ids above MaxSessions are meetings that exist on   *)
(* the backend from earlier runs.  A meeting list is modelled as the set   *)
(* of its ids (the client never reorders a list, it only replaces it or    *)
(* filters it).                                                            *)
(***************************************************************************)
EXTENDS Integers, Sequences, FiniteSets, TLC

\* ---- bounds of the model ----
MaxSessions == 2        \* recordings made while the screen is mounted
MaxStarts == 1          \* startRecording invocations in flight at a time
MaxClearTimers == 1     \* pending 300 ms timers of hideAlert
MaxOld == 2             \* meetings that exist before the screen is mounted
MaxRefresh == 1         \* pull-to-refresh loads in flight at a time
MaxDuration == 2        \* one-second ticks counted by recordingDuration
MaxRows == 2            \* meetings whose status badge is rendered
MaxQa == 2              \* question/answer entries of the meeting on the backend
MaxSaves == 1           \* setThemeMode invocations awaiting their setItem at a time

\* ---- program constant ----
maxAttempts == 30

Sessions == 1..MaxSessions
OldIds == (MaxSessions + 1)..(MaxSessions + MaxOld)
MeetingIds == Sessions \cup OldIds

\* load slots: 0 = the load of the mount effect, s in Sessions = the refresh
\* that the poll loop of session s runs on 'completed', the rest = pull-to-refresh
MountLoad == 0
RefreshLoads == (MaxSessions + 1)..(MaxSessions + MaxRefresh)
LoadIds == {MountLoad} \cup Sessions \cup RefreshLoads

VARIABLES
  \* React state of Index (index.tsx:478-484)
  hasPermission, recording, isRecording, isPaused, recordingDuration,
  isProcessing, meetings,
  \* AsyncStorage key 'meetings' (<<>> = no value, <<L>> = list L) and the backend
  stored, server,
  \* useCustomAlert state and its pending clear timers
  alertConfig, visible, clearTimers,
  \* in-flight handlers
  mountPerm,      \* requestPermissions of the mount effect: "pending" | "done"
  starts,         \* startRecording invocations per await they are suspended at
  nextSess,       \* recording handles created so far + 1
  stage,          \* per session: where its stopRecording/processRecording is
  loop,           \* per session: where its poll loop is
  attempts,       \* per session: the closure variable of pollMeetingStatus
  loadPc, loadVal,\* per load slot: position of loadMeetings and the value it holds
  delPc, delSnap, \* per meeting: position of the Delete onPress and its closure
  \* history (not program state)
  chainLog,       \* per session: requests issued, responses, dialogs of its handler
  requests,       \* per session: status requests issued by its poll loop (0
                  \* again once a reply or an exception has ended the loop)
  result,         \* per session: what the last reply was to its poll loop
  loopDlg,        \* per session: dialogs shown by its poll loop
  shownNow,       \* titles passed to showAlert by the last step
  \* the backend's status of the meeting of each session ("none": not created)
  srvStatus,
  \* pauseRecording / resumeRecording in flight: "off" | "pausing" | "resuming"
  pausePc,
  \* status badges: the statuses of the meetings on screen and the colours
  \* each screen has rendered for them (<<>>: not rendered)
  rows, badges,
  \* the details screen (MeetingDetails) of one meeting
  meeting,        \* useState meeting: <<>> = null, <<m>> = Meeting m (status, qa)
  loading, question, askingQuestion,
  detPc, detVal,  \* loadMeeting: "off" | "fetch" | "resp", and the response in flight
  askPc, askSnap, \* askQuestion: "off" | "fetch" | "resp", its closure (meeting, question)
  askVal,         \* the QuestionAnswer of the response in flight
  srvDoc,         \* the backend's document of the meeting (<<>>: no such meeting)
  lastAlert,      \* message passed to Alert.alert by the last step ("": none)
  onScreen,       \* the screen is on top of the navigation stack
  \* ThemeProvider
  themeMode, theme,
  systemColorScheme,  \* useColorScheme()
  mountScheme,        \* systemColorScheme of the first render (closure of the mount effect)
  themeStored,        \* AsyncStorage 'themeMode': <<>> = null, <<v>> = the string v
  themeLoadPc,        \* loadThemePreference: "off" | "get"
  themeLoadVal,       \* the value its getItem returns
  themeEffect,        \* the effect on [systemColorScheme, themeMode] is due
  themeSaves,         \* setThemeMode invocations awaiting their setItem
  themeChosen         \* setThemeMode was called since the app started

recVars == <<hasPermission, recording, isRecording, isPaused, recordingDuration, isProcessing>>
listVars == <<meetings, stored, server>>
alertVars == <<alertConfig, visible, clearTimers>>
startVars == <<mountPerm, starts, nextSess>>
chainVars == <<stage, chainLog>>
pollVars == <<loop, attempts, requests, result, loopDlg>>
loadVars == <<loadPc, loadVal>>
delVars == <<delPc, delSnap>>

\* state that the handlers of the list screen modelled above leave alone
\* the state of the list screen (Index) and of its backend
indexVars == <<recVars, listVars, alertVars, startVars, chainVars, pollVars, loadVars,
               delVars, shownNow, srvStatus, pausePc>>

badgeVars == <<rows, badges>>
detailVars == <<meeting, loading, question, askingQuestion, detPc, detVal, askPc,
                askSnap, askVal, srvDoc, lastAlert, onScreen>>
themeVars == <<themeMode, theme, systemColorScheme, mountScheme, themeStored,
               themeLoadPc, themeLoadVal, themeEffect, themeSaves, themeChosen>>
otherVars == <<badgeVars, detailVars, themeVars>>
extVars == <<pausePc, otherVars>>

vars == <<recVars, listVars, alertVars, startVars, chainVars, pollVars, loadVars,
          delVars, shownNow, srvStatus, extVars>>

\* ---- alert dialog (hooks/useCustomAlert.tsx, components/CustomAlert.tsx) ----

NoAlert == [title |-> "null", id |-> 0, snap |-> {}]

\* an alert with the default [{text: 'OK'}] button
Alert(title) == [title |-> title, id |-> 0, snap |-> {}]

\* the confirmation of deleteMeeting: its Delete button closes over the
\* meeting id and over the meetings list of the render that built it
DeleteAlert(id, list) == [title |-> "Delete Meeting", id |-> id, snap |-> list]

\* the Modal is rendered only while alertConfig is set, and shown while visible
ModalUp == alertConfig # NoAlert /\ visible

\* showAlert: setAlertConfig({...}); setVisible(true).  Show(cfgs) is a step
\* that calls showAlert once per element of cfgs, in order (none when empty).
Show(cfgs) ==
  /\ alertConfig' = IF cfgs = <<>> THEN alertConfig ELSE cfgs[Len(cfgs)]
  /\ visible' = IF cfgs = <<>> THEN visible ELSE TRUE
  /\ clearTimers' = clearTimers
  /\ shownNow' = [i \in 1..Len(cfgs) |-> cfgs[i].title]

\* a step that calls no showAlert
NoShow == Show(<<>>)

\* hideAlert: setVisible(false); setTimeout(() => setAlertConfig(null), 300)
hideAlert ==
  /\ visible' = FALSE
  /\ clearTimers' = clearTimers + 1
  /\ alertConfig' = alertConfig
  /\ shownNow' = <<>>

\* ---- microphone permission and startRecording (index.tsx:507-522, 544-568) ----

PermStatuses == {"granted", "denied", "undetermined"}

\* requestPermissions with its test inverted (status === 'granted')
PermissionDialogsInverted(status) ==
  IF status = "granted" THEN <<Alert("Permission Required")>> ELSE <<>>

\* requestPermissions: the alerts it shows for a permission status
PermissionDialogs(status) ==
  IF status # "granted" THEN <<Alert("Permission Required")>> ELSE <<>>

StartsInFlight == starts["perm"] + starts["audioMode"] + starts["create"]

\* the request of the mount effect resolves (index.tsx:502-505)
MountPermResult(status) ==
  /\ mountPerm = "pending"
  /\ mountPerm' = "done"
  /\ hasPermission' = (status = "granted")
  /\ Show(PermissionDialogs(status))
  /\ UNCHANGED <<recording, isRecording, isPaused, recordingDuration, isProcessing>>
  /\ UNCHANGED <<starts, nextSess, listVars, chainVars, pollVars, loadVars, delVars>>
  /\ UNCHANGED <<extVars, srvStatus>>

\* Audio.requestPermissionsAsync rejects: caught and logged
MountPermThrows ==
  /\ mountPerm = "pending"
  /\ mountPerm' = "done"
  /\ NoShow
  /\ UNCHANGED <<recVars, starts, nextSess, listVars, chainVars, pollVars, loadVars, delVars>>
  /\ UNCHANGED <<extVars, srvStatus>>

\* the record button of the normal mode (index.tsx:914-921) is pressed
StartRecording ==
  /\ ~isRecording /\ ~isProcessing /\ ~ModalUp
  /\ StartsInFlight < MaxStarts
  /\ IF ~hasPermission
       THEN starts' = [starts EXCEPT !["perm"] = @ + 1]
       ELSE /\ nextSess + starts["audioMode"] + starts["create"] <= MaxSessions
            /\ starts' = [starts EXCEPT !["audioMode"] = @ + 1]
  /\ NoShow
  /\ UNCHANGED <<recVars, mountPerm, nextSess, listVars, chainVars, pollVars, loadVars, delVars>>
  /\ UNCHANGED <<extVars, srvStatus>>

\* the permission request made by startRecording resolves
StartPermResult(status) ==
  /\ starts["perm"] > 0
  /\ hasPermission' = (status = "granted")
  /\ Show(PermissionDialogs(status))
  /\ starts' = [starts EXCEPT !["perm"] = @ - 1]   \* `return`: no capture follows
  /\ UNCHANGED <<recording, isRecording, isPaused, recordingDuration, isProcessing>>
  /\ UNCHANGED <<mountPerm, nextSess, listVars, chainVars, pollVars, loadVars, delVars>>
  /\ UNCHANGED <<extVars, srvStatus>>

StartPermThrows ==
  /\ starts["perm"] > 0
  /\ starts' = [starts EXCEPT !["perm"] = @ - 1]
  /\ NoShow
  /\ UNCHANGED <<recVars, mountPerm, nextSess, listVars, chainVars, pollVars, loadVars, delVars>>
  /\ UNCHANGED <<extVars, srvStatus>>

\* Audio.setAudioModeAsync resolves; Audio.Recording.createAsync is called
StartAudioMode ==
  /\ starts["audioMode"] > 0
  /\ starts' = [starts EXCEPT !["audioMode"] = @ - 1, !["create"] = @ + 1]
  /\ NoShow
  /\ UNCHANGED <<recVars, mountPerm, nextSess, listVars, chainVars, pollVars, loadVars, delVars>>
  /\ UNCHANGED <<extVars, srvStatus>>

\* startRecording adding a placeholder meeting for the new recording to the list
StartCreatedWithPlaceholder ==
  /\ starts["create"] > 0
  /\ starts' = [starts EXCEPT !["create"] = @ - 1]
  /\ recording' = nextSess
  /\ isRecording' = TRUE
  /\ isPaused' = FALSE
  /\ recordingDuration' = 0
  /\ nextSess' = nextSess + 1
  /\ stage' = [stage EXCEPT ![nextSess] = "held"]
  /\ meetings' = meetings \cup {nextSess}
  /\ NoShow
  /\ UNCHANGED <<hasPermission, isProcessing, mountPerm, chainLog>>
  /\ UNCHANGED <<stored, server, pollVars, loadVars, delVars>>
  /\ UNCHANGED <<extVars, srvStatus>>

\* createAsync resolves with a new recording handle
StartCreated ==
  /\ starts["create"] > 0
  /\ starts' = [starts EXCEPT !["create"] = @ - 1]
  /\ recording' = nextSess
  /\ isRecording' = TRUE
  /\ isPaused' = FALSE
  /\ recordingDuration' = 0
  /\ nextSess' = nextSess + 1
  /\ stage' = [stage EXCEPT ![nextSess] = "held"]
  /\ NoShow
  /\ UNCHANGED <<hasPermission, isProcessing, mountPerm, chainLog>>
  /\ UNCHANGED <<listVars, pollVars, loadVars, delVars>>
  /\ UNCHANGED <<extVars, srvStatus>>

\* setAudioModeAsync or createAsync rejects
StartFails(pc) ==
  /\ pc \in {"audioMode", "create"}
  /\ starts[pc] > 0
  /\ starts' = [starts EXCEPT ![pc] = @ - 1]
  /\ Show(<<Alert("Failed to start recording")>>)
  /\ UNCHANGED <<recVars, mountPerm, nextSess, listVars, chainVars, pollVars, loadVars, delVars>>
  /\ UNCHANGED <<extVars, srvStatus>>


\* ---- stopRecording and processRecording (index.tsx:594-613, 621-691) ----

ChainSteps == {"create", "upload", "trigger"}

\* processRecording without its `if (!uploadResponse.ok) throw`
ChainAfterUncheckedUpload(step, ok) ==
  IF step = "create" THEN (IF ok THEN "upload" ELSE "failed")
  ELSE IF step = "upload" THEN "trigger"
  ELSE (IF ok THEN "poll" ELSE "failed")

\* processRecording retrying the upload when the trigger request fails
ChainAfterRetriesUpload(step, ok) ==
  IF ~ok THEN (IF step = "trigger" THEN "upload" ELSE "failed")
  ELSE IF step = "create" THEN "upload"
  ELSE IF step = "upload" THEN "trigger"
  ELSE "poll"

\* processRecording: what follows the response of a step.  A response that is
\* not ok throws, and so does a rejected fetch; the catch ends the chain.
ChainAfter(step, ok) ==
  IF ~ok THEN "failed"
  ELSE IF step = "create" THEN "upload"
  ELSE IF step = "upload" THEN "trigger"
  ELSE "poll"

\* processRecording rethrowing from its catch: the catch of stopRecording runs too
ChainFailureDialogsRethrown ==
  <<Alert("Failed to process recording"), Alert("Failed to stop recording")>>

\* the alerts of a stopRecording whose processRecording failed at a step:
\* processRecording catches the error itself, so the catch of stopRecording
\* does not run
ChainFailureDialogs == <<Alert("Failed to process recording")>>

Titles(cfgs) == [i \in 1..Len(cfgs) |-> cfgs[i].title]

\* the stop button of the recording mode (index.tsx:866-874) is pressed;
\* `if (!recording) return` leaves the state as it is
StopRecording ==
  /\ isRecording /\ ~isProcessing /\ ~ModalUp
  /\ recording # 0
  /\ stage[recording] = "held"
  /\ isRecording' = FALSE
  /\ isPaused' = FALSE
  /\ stage' = [stage EXCEPT ![recording] = "stopping"]
  /\ NoShow
  /\ UNCHANGED <<hasPermission, recording, recordingDuration, isProcessing, chainLog>>
  /\ UNCHANGED <<startVars, listVars, pollVars, loadVars, delVars>>
  /\ UNCHANGED <<extVars, srvStatus>>

\* stopAndUnloadAsync resolves and getURI gives a uri: processRecording starts
\* and issues the create request
StopResolved(s) ==
  /\ stage[s] = "stopping"
  /\ isProcessing' = TRUE
  /\ stage' = [stage EXCEPT ![s] = "create"]
  /\ chainLog' = [chainLog EXCEPT ![s] = Append(@, "create")]
  /\ NoShow
  /\ UNCHANGED <<hasPermission, recording, isRecording, isPaused, recordingDuration>>
  /\ UNCHANGED <<startVars, listVars, pollVars, loadVars, delVars>>
  /\ UNCHANGED <<extVars, srvStatus>>

\* stopAndUnloadAsync resolves and getURI gives null: no processRecording
StopNoUri(s) ==
  /\ stage[s] = "stopping"
  /\ recording' = 0
  /\ recordingDuration' = 0
  /\ stage' = [stage EXCEPT ![s] = "finished"]
  /\ NoShow
  /\ UNCHANGED <<hasPermission, isRecording, isPaused, isProcessing, chainLog>>
  /\ UNCHANGED <<startVars, listVars, pollVars, loadVars, delVars>>
  /\ UNCHANGED <<extVars, srvStatus>>

\* stopRecording with its try around stopAndUnloadAsync only: after the alert
\* it goes on to processRecording
StopThrowsThenProcesses(s) ==
  /\ stage[s] = "stopping"
  /\ isProcessing' = TRUE
  /\ stage' = [stage EXCEPT ![s] = "create"]
  /\ chainLog' = [chainLog EXCEPT ![s] = <<"dlg:Failed to stop recording", "create">>]
  /\ Show(<<Alert("Failed to stop recording")>>)
  /\ UNCHANGED <<hasPermission, recording, isRecording, isPaused, recordingDuration>>
  /\ UNCHANGED <<startVars, listVars, pollVars, loadVars, delVars>>
  /\ UNCHANGED <<extVars, srvStatus>>

\* stopAndUnloadAsync rejects: the catch of stopRecording
StopThrows(s) ==
  /\ stage[s] = "stopping"
  /\ stage' = [stage EXCEPT ![s] = "finished"]
  /\ chainLog' = [chainLog EXCEPT ![s] = Append(@, "dlg:Failed to stop recording")]
  /\ Show(<<Alert("Failed to stop recording")>>)
  /\ UNCHANGED <<recVars, startVars, listVars, pollVars, loadVars, delVars>>
  /\ UNCHANGED <<extVars, srvStatus>>

\* the backend's effect on its meeting list when it handles the request of a
\* step: POST /api/meetings inserts the meeting
ServerAfter(step, s) == IF step = "create" THEN server \cup {s} ELSE server

\* the status the backend gives the meeting when it handles the request of a
\* step: created as 'recording', 'uploaded' by the upload, 'processing' by the
\* trigger, or 'error' when it cannot start the processing
StatusesAfter(step, ok) ==
  IF step = "create" THEN {"recording"}
  ELSE IF step = "upload" THEN {"uploaded"}
  ELSE IF ok THEN {"processing"} ELSE {"processing", "error"}

\* processRecording without its finally clause
ChainEndsNoFinally(s) ==
  /\ isProcessing' = isProcessing
  /\ recording' = 0
  /\ recordingDuration' = 0
  /\ stage' = [stage EXCEPT ![s] = "finished"]
  /\ UNCHANGED <<hasPermission, isRecording, isPaused>>

\* the tail of stopRecording once processRecording has returned: its finally
\* clause, then setRecording(null); setRecordingDuration(0)
ChainEnds(s) ==
  /\ isProcessing' = FALSE
  /\ recording' = 0
  /\ recordingDuration' = 0
  /\ stage' = [stage EXCEPT ![s] = "finished"]
  /\ UNCHANGED <<hasPermission, isRecording, isPaused>>

\* the response of the request of step stage[s] arrives (ok), or it is not ok
\* or the fetch rejects (~ok); inserted: the backend handled the request and
\* changed the meeting (always when the response is ok, possibly when not)
ChainResponse(s, ok, inserted) ==
  /\ stage[s] \in ChainSteps
  /\ ok => inserted
  /\ server' = IF inserted THEN ServerAfter(stage[s], s) ELSE server
  /\ \E st \in StatusesAfter(stage[s], ok) :
       srvStatus' = IF inserted THEN [srvStatus EXCEPT ![s] = st] ELSE srvStatus
  /\ LET next == ChainAfter(stage[s], ok)
         res == IF ok THEN "ok" ELSE "fail"
     IN CASE next \in ChainSteps ->
               \* the next request is issued
               /\ stage' = [stage EXCEPT ![s] = next]
               /\ chainLog' = [chainLog EXCEPT ![s] = @ \o <<res, next>>]
               /\ NoShow
               /\ UNCHANGED <<recVars, pollVars>>
          [] next = "poll" ->
               \* 'Processing Started', then pollMeetingStatus runs poll()
               \* once, which issues the first status request
               /\ chainLog' = [chainLog EXCEPT ![s] =
                                 @ \o <<res, "dlg:Processing Started", "poll">>]
               /\ Show(<<Alert("Processing Started")>>)
               /\ loop' = [loop EXCEPT ![s] = "inflight"]
               /\ requests' = [requests EXCEPT ![s] = 1]
               /\ ChainEnds(s)
               /\ UNCHANGED <<attempts, result, loopDlg>>
          [] OTHER ->
               \* the catch of processRecording
               /\ chainLog' = [chainLog EXCEPT ![s] =
                                 @ \o <<res>> \o
                                 [i \in 1..Len(ChainFailureDialogs) |->
                                    "dlg:" \o ChainFailureDialogs[i].title]]
               /\ Show(ChainFailureDialogs)
               /\ ChainEnds(s)
               /\ UNCHANGED pollVars
  /\ UNCHANGED <<meetings, stored, startVars, loadVars, delVars>>
  /\ UNCHANGED extVars

\* the backend's processing task ends: 'completed', or 'error'
BackendProcesses(s, outcome) ==
  /\ srvStatus[s] = "processing"
  /\ outcome \in {"completed", "error"}
  /\ srvStatus' = [srvStatus EXCEPT ![s] = outcome]
  /\ NoShow
  /\ UNCHANGED <<recVars, listVars, startVars, chainVars, pollVars, loadVars, delVars, extVars>>

\* ---- the duration timer, pauseRecording, resumeRecording (index.tsx:491-500, 570-592) ----

\* the interval of the timer effect, which exists while isRecording && !isPaused,
\* fires: setRecordingDuration(prev => prev + 1)
Tick ==
  /\ isRecording /\ ~isPaused
  /\ recordingDuration < MaxDuration
  /\ recordingDuration' = recordingDuration + 1
  /\ NoShow
  /\ UNCHANGED <<hasPermission, recording, isRecording, isPaused, isProcessing>>
  /\ UNCHANGED <<listVars, startVars, chainVars, pollVars, loadVars, delVars, srvStatus, extVars>>

\* the control button of the recording mode (index.tsx:884-888) is pressed
\* while it reads 'Pause' / 'Resume'; `if (!recording) return` leaves the state
\* as it is (the model follows one of the two handlers at a time)
PauseRecording ==
  /\ isRecording /\ ~isProcessing /\ ~ModalUp
  /\ ~isPaused /\ recording # 0
  /\ pausePc = "off"
  /\ pausePc' = "pausing"
  /\ NoShow
  /\ UNCHANGED <<recVars, listVars, startVars, chainVars, pollVars, loadVars, delVars, srvStatus>>
  /\ UNCHANGED otherVars

ResumeRecording ==
  /\ isRecording /\ ~isProcessing /\ ~ModalUp
  /\ isPaused /\ recording # 0
  /\ pausePc = "off"
  /\ pausePc' = "resuming"
  /\ NoShow
  /\ UNCHANGED <<recVars, listVars, startVars, chainVars, pollVars, loadVars, delVars, srvStatus>>
  /\ UNCHANGED otherVars

\* recording.pauseAsync() / recording.startAsync() resolves
PauseResolved ==
  /\ pausePc \in {"pausing", "resuming"}
  /\ isPaused' = (pausePc = "pausing")
  /\ pausePc' = "off"
  /\ NoShow
  /\ UNCHANGED <<hasPermission, recording, isRecording, recordingDuration, isProcessing>>
  /\ UNCHANGED <<listVars, startVars, chainVars, pollVars, loadVars, delVars, srvStatus>>
  /\ UNCHANGED otherVars

\* it rejects: the catch of pauseRecording / resumeRecording
PauseFails ==
  /\ pausePc \in {"pausing", "resuming"}
  /\ pausePc' = "off"
  /\ Show(<<Alert(IF pausePc = "pausing" THEN "Failed to pause recording"
                                          ELSE "Failed to resume recording")>>)
  /\ UNCHANGED <<recVars, listVars, startVars, chainVars, pollVars, loadVars, delVars, srvStatus>>
  /\ UNCHANGED otherVars

\* ---- loadMeetings (index.tsx:524-542) ----

\* loadMeetings is called: AsyncStorage.getItem('meetings') is issued.  The
\* storage serves its requests in the order they are issued, so the value read
\* is the one stored now.
LoadCalled(l) ==
  /\ loadPc' = [loadPc EXCEPT ![l] = "getItem"]
  /\ loadVal' = [loadVal EXCEPT ![l] = stored]

\* loadMeetings returns (it catches every error itself).  The load of slot
\* s in Sessions was awaited by the poll loop of session s, which goes on with
\* 'Processing Complete' and returns (index.tsx:704-710).
LoadReturns(l) ==
  /\ loadPc' = [loadPc EXCEPT ![l] = "off"]
  /\ loadVal' = [loadVal EXCEPT ![l] = <<>>]
  /\ IF l \in Sessions
       THEN /\ Show(<<Alert("Processing Complete")>>)
            /\ loop' = [loop EXCEPT ![l] = "ended"]
            /\ loopDlg' = [loopDlg EXCEPT ![l] = Append(@, "Processing Complete")]
            /\ UNCHANGED <<attempts, requests, result>>
       ELSE /\ NoShow
            /\ UNCHANGED pollVars

\* pull-to-refresh on the list of the normal mode (index.tsx:938-943)
Refresh(l) ==
  /\ l \in RefreshLoads
  /\ loadPc[l] = "off"
  /\ ~isRecording /\ ~ModalUp
  /\ LoadCalled(l)
  /\ NoShow
  /\ UNCHANGED <<recVars, listVars, startVars, chainVars, pollVars, delVars>>
  /\ UNCHANGED <<extVars, srvStatus>>

\* loadMeetings without its `if (storedMeetings) setMeetings(...)`
LoadGotItemIgnoresMirror(l) ==
  /\ loadPc[l] = "getItem"
  /\ meetings' = meetings
  /\ loadPc' = [loadPc EXCEPT ![l] = "fetch"]
  /\ loadVal' = [loadVal EXCEPT ![l] = <<>>]
  /\ NoShow
  /\ UNCHANGED <<recVars, stored, server, startVars, chainVars, pollVars, delVars>>
  /\ UNCHANGED <<extVars, srvStatus>>

\* getItem resolves: a stored list is shown at once; then the GET is issued
LoadGotItem(l) ==
  /\ loadPc[l] = "getItem"
  /\ meetings' = IF loadVal[l] # <<>> THEN loadVal[l][1] ELSE meetings
  /\ loadPc' = [loadPc EXCEPT ![l] = "fetch"]
  /\ loadVal' = [loadVal EXCEPT ![l] = <<>>]
  /\ NoShow
  /\ UNCHANGED <<recVars, stored, server, startVars, chainVars, pollVars, delVars>>
  /\ UNCHANGED <<extVars, srvStatus>>

\* the backend handles GET /api/meetings: the response carries its list
LoadServed(l) ==
  /\ loadPc[l] = "fetch"
  /\ loadPc' = [loadPc EXCEPT ![l] = "resp"]
  /\ loadVal' = [loadVal EXCEPT ![l] = <<server>>]
  /\ NoShow
  /\ UNCHANGED <<recVars, listVars, startVars, chainVars, pollVars, delVars>>
  /\ UNCHANGED <<extVars, srvStatus>>

\* loadMeetings without its AsyncStorage.setItem: the mirror is not refreshed
LoadResponseKeepsMirror(l) ==
  /\ loadPc[l] = "resp"
  /\ meetings' = loadVal[l][1]
  /\ stored' = stored
  /\ loadPc' = [loadPc EXCEPT ![l] = "setItem"]
  /\ loadVal' = [loadVal EXCEPT ![l] = <<>>]
  /\ NoShow
  /\ UNCHANGED <<recVars, server, startVars, chainVars, pollVars, delVars>>
  /\ UNCHANGED <<extVars, srvStatus>>

\* the ok response arrives: setMeetings(serverMeetings), setItem is issued
LoadResponse(l) ==
  /\ loadPc[l] = "resp"
  /\ meetings' = loadVal[l][1]
  /\ stored' = loadVal[l]
  /\ loadPc' = [loadPc EXCEPT ![l] = "setItem"]
  /\ loadVal' = [loadVal EXCEPT ![l] = <<>>]
  /\ NoShow
  /\ UNCHANGED <<recVars, server, startVars, chainVars, pollVars, delVars>>
  /\ UNCHANGED <<extVars, srvStatus>>

\* setItem resolves
LoadStoredDone(l) ==
  /\ loadPc[l] = "setItem"
  /\ LoadReturns(l)
  /\ UNCHANGED <<recVars, listVars, startVars, chainVars, delVars>>
  /\ UNCHANGED <<extVars, srvStatus>>

\* the fetch rejects or the response is not ok (AsyncStorage itself is taken
\* to work: its reads and writes succeed)
LoadFails(l) ==
  /\ loadPc[l] \in {"fetch", "resp"}
  /\ LoadReturns(l)
  /\ UNCHANGED <<recVars, listVars, startVars, chainVars, delVars>>
  /\ UNCHANGED <<extVars, srvStatus>>

\* ---- pollMeetingStatus (index.tsx:693-729) ----

Statuses == {"recording", "uploaded", "processing", "completed", "error"}

\* what a status request can come back with: an ok response carrying the
\* meeting's status, a response that is not ok, or a rejected fetch
PollReplies == Statuses \cup {"bad", "throw"}

\* poll() with `attempts <= maxAttempts` in place of `attempts < maxAttempts`
PollOutcomeOffByOne(reply, att) ==
  IF reply = "throw"
    THEN [loop |-> "ended", attempts |-> 0, result |-> "threw", dlg |-> <<>>]
  ELSE IF reply = "completed"
    THEN [loop |-> "load", attempts |-> 0, result |-> "completed", dlg |-> <<>>]
  ELSE IF reply = "error"
    THEN [loop |-> "ended", attempts |-> 0, result |-> "error",
          dlg |-> <<Alert("Failed to process meeting")>>]
  ELSE IF att + 1 <= maxAttempts
    THEN [loop |-> "timer", attempts |-> att + 1,
          result |-> IF reply = "bad" THEN "bad" ELSE "pending", dlg |-> <<>>]
  ELSE [loop |-> "ended", attempts |-> att + 1, result |-> "timeout",
        dlg |-> <<Alert("Timeout")>>]

\* poll() without the `return` of its 'completed' branch: it falls through to
\* the attempt count and schedules the next poll
PollOutcomeNoReturn(reply, att) ==
  IF reply = "throw"
    THEN [loop |-> "ended", attempts |-> 0, result |-> "threw", dlg |-> <<>>]
  ELSE IF reply = "error"
    THEN [loop |-> "ended", attempts |-> 0, result |-> "error",
          dlg |-> <<Alert("Failed to process meeting")>>]
  ELSE IF att + 1 < maxAttempts
    THEN [loop |-> "timer", attempts |-> att + 1,
          result |-> IF reply = "completed" THEN "completed"
                     ELSE IF reply = "bad" THEN "bad" ELSE "pending",
          dlg |-> IF reply = "completed"
                    THEN <<Alert("Processing Complete")>> ELSE <<>>]
  ELSE [loop |-> "ended", attempts |-> att + 1, result |-> "timeout",
        dlg |-> <<Alert("Timeout")>>]

\* poll() showing 'Processing Complete' before it awaits loadMeetings
PollOutcomeDialogFirst(reply, att) ==
  IF reply = "throw"
    THEN [loop |-> "ended", attempts |-> 0, result |-> "threw", dlg |-> <<>>]
  ELSE IF reply = "completed"
    THEN [loop |-> "load", attempts |-> 0, result |-> "completed",
          dlg |-> <<Alert("Processing Complete")>>]
  ELSE IF reply = "error"
    THEN [loop |-> "ended", attempts |-> 0, result |-> "error",
          dlg |-> <<Alert("Failed to process meeting")>>]
  ELSE IF att + 1 < maxAttempts
    THEN [loop |-> "timer", attempts |-> att + 1,
          result |-> IF reply = "bad" THEN "bad" ELSE "pending", dlg |-> <<>>]
  ELSE [loop |-> "ended", attempts |-> att + 1, result |-> "timeout",
        dlg |-> <<Alert("Timeout")>>]

\* poll() that gives up on a response that is not ok, as it does on an exception
PollOutcomeStopsOnBad(reply, att) ==
  IF reply \in {"throw", "bad"}
    THEN [loop |-> "ended", attempts |-> 0, result |-> "threw", dlg |-> <<>>]
  ELSE IF reply = "completed"
    THEN [loop |-> "load", attempts |-> 0, result |-> "completed", dlg |-> <<>>]
  ELSE IF reply = "error"
    THEN [loop |-> "ended", attempts |-> 0, result |-> "error",
          dlg |-> <<Alert("Failed to process meeting")>>]
  ELSE IF att + 1 < maxAttempts
    THEN [loop |-> "timer", attempts |-> att + 1, result |-> "pending", dlg |-> <<>>]
  ELSE [loop |-> "ended", attempts |-> att + 1, result |-> "timeout",
        dlg |-> <<Alert("Timeout")>>]

\* poll(): what it does with a reply when `attempts` is att.  loop is where
\* the loop is afterwards ("load": awaiting loadMeetings; "timer": the next
\* poll is scheduled; "ended": nothing is scheduled), dlg the alerts it shows,
\* result what the reply was to the loop.  A loop that ends on a reply or on
\* an exception never reads `attempts` again: the dead variable is kept at 0.
PollOutcome(reply, att) ==
  IF reply = "throw"
    THEN [loop |-> "ended", attempts |-> 0, result |-> "threw", dlg |-> <<>>]
  ELSE IF reply = "completed"
    THEN [loop |-> "load", attempts |-> 0, result |-> "completed", dlg |-> <<>>]
  ELSE IF reply = "error"
    THEN [loop |-> "ended", attempts |-> 0, result |-> "error",
          dlg |-> <<Alert("Failed to process meeting")>>]
  ELSE IF att + 1 < maxAttempts
    THEN [loop |-> "timer", attempts |-> att + 1,
          result |-> IF reply = "bad" THEN "bad" ELSE "pending", dlg |-> <<>>]
  ELSE [loop |-> "ended", attempts |-> att + 1, result |-> "timeout",
        dlg |-> <<Alert("Timeout")>>]

\* the reply to the status request of session s arrives
PollResponse(s, reply) ==
  /\ loop[s] = "inflight"
  /\ LET o == PollOutcome(reply, attempts[s])
     IN /\ loop' = [loop EXCEPT ![s] = o.loop]
        /\ attempts' = [attempts EXCEPT ![s] = o.attempts]
        /\ result' = [result EXCEPT ![s] = o.result]
        /\ requests' = [requests EXCEPT ![s] =
                          IF o.result \in {"threw", "completed", "error"} THEN 0 ELSE @]
        /\ loopDlg' = [loopDlg EXCEPT ![s] = @ \o Titles(o.dlg)]
        /\ Show(o.dlg)
        /\ IF o.loop = "load" THEN LoadCalled(s) ELSE UNCHANGED loadVars
  /\ UNCHANGED <<recVars, listVars, startVars, chainVars, delVars>>
  /\ UNCHANGED <<extVars, srvStatus>>

\* the 10 s timer fires: poll() issues the next status request
PollTimer(s) ==
  /\ loop[s] = "timer"
  /\ loop' = [loop EXCEPT ![s] = "inflight"]
  /\ requests' = [requests EXCEPT ![s] = @ + 1]
  /\ NoShow
  /\ UNCHANGED <<attempts, result, loopDlg>>
  /\ UNCHANGED <<recVars, listVars, startVars, chainVars, loadVars, delVars>>
  /\ UNCHANGED <<extVars, srvStatus>>

\* ---- deleteMeeting (index.tsx:731-771) ----

\* setMeetings(prevMeetings => prevMeetings.filter(m => m.id !== meetingId)):
\* the functional update filters the list as it is when the update runs
DeleteFromList(prev, id) == prev \ {id}

\* meetings.filter(m => m.id !== meetingId) for AsyncStorage.setItem: `meetings`
\* is the list of the render in which deleteMeeting built the dialog
DeleteFromMirror(snap, id) == snap \ {id}

\* the Delete action of a swiped list row (index.tsx:773-788) is pressed (the
\* model follows one Delete onPress per meeting at a time)
DeleteMeeting(id) ==
  /\ id \in meetings
  /\ ~isRecording /\ ~ModalUp
  /\ delPc[id] = "off"
  /\ Show(<<DeleteAlert(id, meetings)>>)
  /\ UNCHANGED <<recVars, listVars, startVars, chainVars, pollVars, loadVars, delVars>>
  /\ UNCHANGED <<extVars, srvStatus>>

\* the response of the DELETE request arrives ok: the list is updated and the
\* write of the mirror is issued
DeleteResponse(id) ==
  /\ delPc[id] = "fetch"
  /\ id \in server
  /\ server' = server \ {id}
  /\ meetings' = DeleteFromList(meetings, id)
  /\ stored' = <<DeleteFromMirror(delSnap[id], id)>>
  /\ delPc' = [delPc EXCEPT ![id] = "setItem"]
  /\ delSnap' = [delSnap EXCEPT ![id] = {}]
  /\ NoShow
  /\ UNCHANGED <<recVars, startVars, chainVars, pollVars, loadVars>>
  /\ UNCHANGED <<extVars, srvStatus>>

\* the response is not ok, or the fetch rejects (handled: the backend deleted
\* the meeting all the same)
DeleteFails(id, handled) ==
  /\ delPc[id] = "fetch"
  /\ server' = IF handled THEN server \ {id} ELSE server
  /\ delPc' = [delPc EXCEPT ![id] = "off"]
  /\ delSnap' = [delSnap EXCEPT ![id] = {}]
  /\ Show(<<Alert("Failed to delete meeting")>>)
  /\ UNCHANGED <<recVars, meetings, stored, startVars, chainVars, pollVars, loadVars>>
  /\ UNCHANGED <<extVars, srvStatus>>

\* setItem resolves: 'Success'
DeleteStoredDone(id) ==
  /\ delPc[id] = "setItem"
  /\ delPc' = [delPc EXCEPT ![id] = "off"]
  /\ Show(<<Alert("Meeting deleted successfully")>>)
  /\ UNCHANGED <<recVars, listVars, startVars, chainVars, pollVars, loadVars, delSnap>>
  /\ UNCHANGED <<extVars, srvStatus>>

\* ---- the buttons of the alert (CustomAlert.handleButtonPress) ----

\* a button without onPress (OK, Cancel), or the back button: onClose()
PressClose ==
  /\ ModalUp
  /\ clearTimers < MaxClearTimers
  /\ hideAlert
  /\ UNCHANGED <<recVars, listVars, startVars, chainVars, pollVars, loadVars, delVars>>
  /\ UNCHANGED <<extVars, srvStatus>>

\* a Delete button that removes the row from the list before the request
\* is answered
PressDeleteOptimistic ==
  /\ ModalUp
  /\ alertConfig.title = "Delete Meeting"
  /\ clearTimers < MaxClearTimers
  /\ delPc[alertConfig.id] = "off"
  /\ delPc' = [delPc EXCEPT ![alertConfig.id] = "fetch"]
  /\ delSnap' = [delSnap EXCEPT ![alertConfig.id] = alertConfig.snap]
  /\ meetings' = DeleteFromList(meetings, alertConfig.id)
  /\ hideAlert
  /\ UNCHANGED <<recVars, stored, server, startVars, chainVars, pollVars, loadVars>>
  /\ UNCHANGED <<extVars, srvStatus>>

\* the Delete button of the confirmation: onPress() runs up to its first
\* await (the DELETE request is issued), then onClose()
PressDelete ==
  /\ ModalUp
  /\ alertConfig.title = "Delete Meeting"
  /\ clearTimers < MaxClearTimers
  /\ delPc[alertConfig.id] = "off"
  /\ delPc' = [delPc EXCEPT ![alertConfig.id] = "fetch"]
  /\ delSnap' = [delSnap EXCEPT ![alertConfig.id] = alertConfig.snap]
  /\ hideAlert
  /\ UNCHANGED <<recVars, listVars, startVars, chainVars, pollVars, loadVars>>
  /\ UNCHANGED <<extVars, srvStatus>>

\* the 300 ms timer of hideAlert fires: setAlertConfig(null)
ClearTimer ==
  /\ clearTimers > 0
  /\ clearTimers' = clearTimers - 1
  /\ alertConfig' = NoAlert
  /\ visible' = visible
  /\ shownNow' = <<>>
  /\ UNCHANGED <<recVars, listVars, startVars, chainVars, pollVars, loadVars, delVars>>
  /\ UNCHANGED <<extVars, srvStatus>>

\* ---- status badges (index.tsx:262-273, 834-845; details screen 377-388) ----

\* what a Meeting.status can hold when it is rendered: the five statuses, and
\* strings that are none of them ('' and a differently cased 'Completed' among them)
StatusValues == Statuses \cup {"", "Completed", "pending"}

\* a getStatusColor that compares without regard to case
getStatusColorAnyCase(status) ==
  CASE status \in {"completed", "Completed"} -> "#34C759"
    [] status = "processing" -> "#FF9500"
    [] status = "error" -> "#FF3B30"
    [] OTHER -> "#8E8E93"

\* getStatusColor of the list screen (second version): switch (status)
getStatusColor(status) ==
  CASE status = "completed" -> "#34C759"
    [] status = "processing" -> "#FF9500"
    [] status = "error" -> "#FF3B30"
    [] OTHER -> "#8E8E93"

\* getStatusColor of the first version of the list screen
getStatusColorFirst(status) ==
  CASE status = "completed" -> "#34C759"
    [] status = "processing" -> "#FF9500"
    [] status = "error" -> "#FF3B30"
    [] OTHER -> "#8E8E93"

\* getStatusColor of the details screen
getStatusColorDetails(status) ==
  CASE status = "completed" -> "#34C759"
    [] status = "processing" -> "#FF9500"
    [] status = "error" -> "#FF3B30"
    [] OTHER -> "#8E8E93"

\* renderMeeting of the list screen: one badge per row (index.tsx:803)
RenderList ==
  /\ badges' = [badges EXCEPT !.list = [i \in 1..Len(rows) |-> getStatusColor(rows[i])]]
  /\ UNCHANGED rows
  /\ UNCHANGED <<indexVars, detailVars, themeVars>>

\* renderMeeting of the first version of the list screen (index.tsx:246)
RenderListFirst ==
  /\ badges' = [badges EXCEPT !.first = [i \in 1..Len(rows) |-> getStatusColorFirst(rows[i])]]
  /\ UNCHANGED rows
  /\ UNCHANGED <<indexVars, detailVars, themeVars>>

\* the header of the details screen of each of the meetings (details screen 264)
RenderDetails ==
  /\ badges' = [badges EXCEPT !.details = [i \in 1..Len(rows) |-> getStatusColorDetails(rows[i])]]
  /\ UNCHANGED rows
  /\ UNCHANGED <<indexVars, detailVars, themeVars>>

\* ---- the details screen: loadMeeting, askQuestion (MeetingDetails, part_002) ----
\* saveChanges, startEditing and cancelEditing are defined in the component,
\* but no element it renders calls them: they are no operation of the screen.

\* the text of the question input: empty, blank, a question, a padded question
Questions == {"", " ", "q", " q "}

\* question.trim()
Trim(q) == IF q = " " THEN "" ELSE IF q = " q " THEN "q" ELSE q

\* askQuestion prepending the new entry
WithAnswerFirst(m, qa) == [m EXCEPT !.qa = <<qa>> \o @]

\* {...meeting, questions_answers: [...(meeting.questions_answers || []), questionAnswer]}
\* (a meeting without the list is one with the empty list)
WithAnswer(m, qa) == [m EXCEPT !.qa = Append(@, qa)]

\* the backend handles GET /api/meetings/{id}
LoadMeetingServed ==
  /\ detPc = "fetch"
  /\ detPc' = "resp"
  /\ detVal' = srvDoc
  /\ lastAlert' = ""
  /\ UNCHANGED <<meeting, loading, question, askingQuestion, askPc, askSnap, askVal, srvDoc, onScreen>>
  /\ UNCHANGED <<indexVars, badgeVars, themeVars>>

\* the response arrives: ok with the meeting, or not ok ('Meeting not found',
\* router.back()); then the finally clause
LoadMeetingResponse ==
  /\ detPc = "resp"
  /\ detPc' = "off"
  /\ detVal' = <<>>
  /\ loading' = FALSE
  /\ IF detVal # <<>>
       THEN meeting' = detVal /\ lastAlert' = "" /\ onScreen' = onScreen
       ELSE meeting' = meeting /\ lastAlert' = "Meeting not found" /\ onScreen' = FALSE
  /\ UNCHANGED <<question, askingQuestion, askPc, askSnap, askVal, srvDoc>>
  /\ UNCHANGED <<indexVars, badgeVars, themeVars>>

\* the fetch rejects: the catch of loadMeeting, then the finally clause
LoadMeetingFails ==
  /\ detPc \in {"fetch", "resp"}
  /\ detPc' = "off"
  /\ detVal' = <<>>
  /\ loading' = FALSE
  /\ lastAlert' = "Failed to load meeting details"
  /\ UNCHANGED <<meeting, question, askingQuestion, askPc, askSnap, askVal, srvDoc, onScreen>>
  /\ UNCHANGED <<indexVars, badgeVars, themeVars>>

\* the question input and the ask button are rendered for a loaded meeting
\* whose status is 'completed'
QuestionInputShown ==
  onScreen /\ ~loading /\ meeting # <<>> /\ meeting[1].status = "completed"

\* onChangeText={setQuestion}
SetQuestion(q) ==
  /\ QuestionInputShown
  /\ question' = q
  /\ lastAlert' = ""
  /\ UNCHANGED <<meeting, loading, askingQuestion, detPc, detVal, askPc, askSnap, askVal, srvDoc, onScreen>>
  /\ UNCHANGED <<indexVars, badgeVars, themeVars>>

\* askQuestion without its test of the meeting's status
askQuestionNoStatusTest ==
  /\ askPc = "off"
  /\ IF Trim(question) = ""
       THEN /\ lastAlert' = "Please enter a question"
            /\ UNCHANGED <<askingQuestion, askPc, askSnap>>
       ELSE IF meeting = <<>>
       THEN /\ lastAlert' = "Meeting must be processed before asking questions"
            /\ UNCHANGED <<askingQuestion, askPc, askSnap>>
       ELSE /\ srvDoc # <<>> /\ Len(srvDoc[1].qa) < MaxQa
            /\ askingQuestion' = TRUE
            /\ askPc' = "fetch"
            /\ askSnap' = [meeting |-> meeting, question |-> Trim(question)]
            /\ lastAlert' = ""
  /\ UNCHANGED <<meeting, loading, question, detPc, detVal, askVal, srvDoc, onScreen>>
  /\ UNCHANGED <<indexVars, badgeVars, themeVars>>

\* askQuestion is called (the model follows one invocation at a time): its two
\* tests, each with an alert and a return, then setAskingQuestion(true) and
\* the fetch
askQuestion ==
  /\ askPc = "off"
  /\ IF Trim(question) = ""
       THEN /\ lastAlert' = "Please enter a question"
            /\ UNCHANGED <<askingQuestion, askPc, askSnap>>
       ELSE IF meeting = <<>> \/ meeting[1].status # "completed"
       THEN /\ lastAlert' = "Meeting must be processed before asking questions"
            /\ UNCHANGED <<askingQuestion, askPc, askSnap>>
       ELSE /\ srvDoc # <<>> /\ Len(srvDoc[1].qa) < MaxQa
            /\ askingQuestion' = TRUE
            /\ askPc' = "fetch"
            /\ askSnap' = [meeting |-> meeting, question |-> Trim(question)]
            /\ lastAlert' = ""
  /\ UNCHANGED <<meeting, loading, question, detPc, detVal, askVal, srvDoc, onScreen>>
  /\ UNCHANGED <<indexVars, badgeVars, themeVars>>

\* the ask button (disabled={!question.trim() || askingQuestion}) is pressed:
\* onPress={askQuestion}
AskQuestion ==
  /\ QuestionInputShown
  /\ Trim(question) # "" /\ ~askingQuestion
  /\ askQuestion

\* the backend handles POST /api/meetings/{id}/ask-question: it appends the
\* QuestionAnswer to the meeting and returns it
AskServed ==
  /\ askPc = "fetch"
  /\ askPc' = "resp"
  /\ LET qa == [question |-> askSnap.question, n |-> Len(srvDoc[1].qa) + 1]
     IN /\ srvDoc' = <<[srvDoc[1] EXCEPT !.qa = Append(@, qa)]>>
        /\ askVal' = <<qa>>
  /\ lastAlert' = ""
  /\ UNCHANGED <<meeting, loading, question, askingQuestion, detPc, detVal, askSnap, onScreen>>
  /\ UNCHANGED <<indexVars, badgeVars, themeVars>>

\* the ok response arrives: the entry is appended to the meeting of the
\* closure; setQuestion(''); then the finally clause
AskResponse ==
  /\ askPc = "resp"
  /\ askPc' = "off"
  /\ meeting' = <<WithAnswer(askSnap.meeting[1], askVal[1])>>
  /\ question' = ""
  /\ askingQuestion' = FALSE
  /\ askVal' = <<>>
  /\ lastAlert' = ""
  /\ UNCHANGED <<loading, detPc, detVal, askSnap, srvDoc, onScreen>>
  /\ UNCHANGED <<indexVars, badgeVars, themeVars>>

\* the response is not ok or the fetch rejects: an alert, then the finally clause
AskFails ==
  /\ askPc \in {"fetch", "resp"}
  /\ askPc' = "off"
  /\ askingQuestion' = FALSE
  /\ askVal' = <<>>
  /\ lastAlert' \in {"Failed to ask question", "errorData.detail"}
  /\ UNCHANGED <<meeting, loading, question, detPc, detVal, askSnap, srvDoc, onScreen>>
  /\ UNCHANGED <<indexVars, badgeVars, themeVars>>

\* the back arrow of the header: router.back()
GoBack ==
  /\ onScreen /\ ~loading /\ meeting # <<>>
  /\ onScreen' = FALSE
  /\ lastAlert' = ""
  /\ UNCHANGED <<meeting, loading, question, askingQuestion, detPc, detVal, askPc, askSnap, askVal, srvDoc>>
  /\ UNCHANGED <<indexVars, badgeVars, themeVars>>

\* ---- ThemeProvider (contexts/ThemeContext.tsx) ----
ThemeModes == {"light", "dark", "system"}

Schemes == {"light", "dark"}

\* what AsyncStorage can hold under 'themeMode' when the app has never saved
\* a mode: nothing, or a string that is none of the modes
ForeignStored == {<<>>, <<"blue">>, <<"Dark">>}

\* getTheme(mode), with the systemColorScheme of the render it closes over
getTheme(mode, scheme) ==
  IF mode = "system"
    THEN (IF scheme = "dark" THEN "darkTheme" ELSE "lightTheme")
    ELSE (IF mode = "dark" THEN "darkTheme" ELSE "lightTheme")

\* the app is started: the provider mounts with mode 'system' and its mount
\* effect issues getItem('themeMode')
StartApp ==
  /\ themeMode' = "system"
  /\ \E sc \in Schemes :
       /\ systemColorScheme' = sc
       /\ mountScheme' = sc
       /\ theme' = getTheme("system", sc)
  /\ themeLoadPc' = "get"
  /\ themeLoadVal' = themeStored
  /\ themeEffect' = TRUE
  /\ themeSaves' = 0
  /\ themeChosen' = FALSE
  /\ UNCHANGED themeStored
  /\ UNCHANGED <<indexVars, badgeVars, detailVars>>

\* loadThemePreference applying whatever string it read
LoadThemeGotUnchecked ==
  /\ themeLoadPc = "get"
  /\ themeLoadPc' = "off"
  /\ themeLoadVal' = <<>>
  /\ IF themeLoadVal # <<>>
       THEN /\ themeMode' = themeLoadVal[1]
            /\ theme' = getTheme(themeLoadVal[1], mountScheme)
            /\ themeEffect' = (themeEffect \/ themeLoadVal[1] # themeMode)
       ELSE UNCHANGED <<themeMode, theme, themeEffect>>
  /\ UNCHANGED <<systemColorScheme, mountScheme, themeStored, themeSaves, themeChosen>>
  /\ UNCHANGED <<indexVars, badgeVars, detailVars>>

\* getItem resolves: loadThemePreference applies a value that is one of the
\* three modes and ignores anything else
LoadThemeGot ==
  /\ themeLoadPc = "get"
  /\ themeLoadPc' = "off"
  /\ themeLoadVal' = <<>>
  /\ IF themeLoadVal # <<>> /\ themeLoadVal[1] \in ThemeModes
       THEN /\ themeMode' = themeLoadVal[1]
            /\ theme' = getTheme(themeLoadVal[1], mountScheme)
            /\ themeEffect' = (themeEffect \/ themeLoadVal[1] # themeMode)
       ELSE UNCHANGED <<themeMode, theme, themeEffect>>
  /\ UNCHANGED <<systemColorScheme, mountScheme, themeStored, themeSaves, themeChosen>>
  /\ UNCHANGED <<indexVars, badgeVars, detailVars>>

\* setThemeMode(mode), called by the theme selector: the state is set and
\* setItem('themeMode', mode) is issued (the storage serves its requests in
\* the order they are issued, so a later read sees the value)
SetThemeMode(mode) ==
  /\ themeSaves < MaxSaves
  /\ themeSaves' = themeSaves + 1
  /\ themeMode' = mode
  /\ theme' = getTheme(mode, systemColorScheme)
  /\ themeStored' = <<mode>>
  /\ themeEffect' = (themeEffect \/ mode # themeMode)
  /\ themeChosen' = TRUE
  /\ UNCHANGED <<systemColorScheme, mountScheme, themeLoadPc, themeLoadVal>>
  /\ UNCHANGED <<indexVars, badgeVars, detailVars>>

\* the system colour scheme changes: useColorScheme() re-renders the provider
SchemeChanges ==
  /\ systemColorScheme' = IF systemColorScheme = "dark" THEN "light" ELSE "dark"
  /\ themeEffect' = TRUE
  /\ UNCHANGED <<themeMode, theme, mountScheme, themeStored, themeLoadPc, themeLoadVal, themeSaves, themeChosen>>
  /\ UNCHANGED <<indexVars, badgeVars, detailVars>>

\* the effect on [systemColorScheme, themeMode] runs
ThemeEffect ==
  /\ themeEffect
  /\ themeEffect' = FALSE
  /\ theme' = IF themeMode = "system" THEN getTheme("system", systemColorScheme) ELSE theme
  /\ UNCHANGED <<themeMode, systemColorScheme, mountScheme, themeStored, themeLoadPc, themeLoadVal, themeSaves, themeChosen>>
  /\ UNCHANGED <<indexVars, badgeVars, detailVars>>

\* the setItem of a setThemeMode resolves: the handler returns
ThemeSaved ==
  /\ themeSaves > 0
  /\ themeSaves' = themeSaves - 1
  /\ UNCHANGED <<themeMode, theme, systemColorScheme, mountScheme, themeStored, themeLoadPc, themeLoadVal, themeEffect, themeChosen>>
  /\ UNCHANGED <<indexVars, badgeVars, detailVars>>

\* ---- specifications ----

\* state shared by every initial state: nothing recorded, no handler in flight
InitIdle ==
  /\ recording = 0 /\ isRecording = FALSE /\ isPaused = FALSE
  /\ recordingDuration = 0 /\ isProcessing = FALSE
  /\ alertConfig = NoAlert /\ visible = FALSE /\ clearTimers = 0
  /\ starts = [pc \in {"perm", "audioMode", "create"} |-> 0]
  /\ nextSess = 1
  /\ stage = [s \in Sessions |-> "none"]
  /\ chainLog = [s \in Sessions |-> <<>>]
  /\ loop = [s \in Sessions |-> "off"]
  /\ attempts = [s \in Sessions |-> 0]
  /\ requests = [s \in Sessions |-> 0]
  /\ result = [s \in Sessions |-> "none"]
  /\ loopDlg = [s \in Sessions |-> <<>>]
  /\ delPc = [id \in MeetingIds |-> "off"]
  /\ delSnap = [id \in MeetingIds |-> {}]
  /\ shownNow = <<>>
  /\ srvStatus = [s \in Sessions |-> "none"]
  /\ pausePc = "off"

\* no badge rendered
BadgeIdle == rows = <<>> /\ badges = [list |-> <<>>, first |-> <<>>, details |-> <<>>]

\* the details screen is not open
DetailIdle ==
  /\ meeting = <<>> /\ loading = TRUE /\ question = "" /\ askingQuestion = FALSE
  /\ detPc = "off" /\ detVal = <<>>
  /\ askPc = "off" /\ askSnap = [meeting |-> <<>>, question |-> ""] /\ askVal = <<>>
  /\ srvDoc = <<>> /\ lastAlert = "" /\ onScreen = FALSE

\* the theme provider at rest: mode 'system', nothing persisted
ThemeIdle ==
  /\ themeMode = "system" /\ theme = "lightTheme"
  /\ systemColorScheme = "light" /\ mountScheme = "light"
  /\ themeStored = <<>> /\ themeLoadPc = "off" /\ themeLoadVal = <<>>
  /\ themeEffect = FALSE /\ themeSaves = 0 /\ themeChosen = FALSE

OthersIdle == BadgeIdle /\ DetailIdle /\ ThemeIdle

\* Recording and processing: the screen after its mount effect has finished
\* (permission granted or not, the list loaded and mirrored)
Init ==
  /\ InitIdle
  /\ OthersIdle
  /\ hasPermission \in BOOLEAN
  /\ mountPerm = "done"
  /\ server = OldIds /\ meetings = OldIds /\ stored = <<OldIds>>
  /\ loadPc = [l \in LoadIds |-> "off"]
  /\ loadVal = [l \in LoadIds |-> <<>>]

Next ==
  \/ StartRecording
  \/ \E status \in PermStatuses : StartPermResult(status)
  \/ StartPermThrows
  \/ StartAudioMode
  \/ StartCreated
  \/ \E pc \in {"audioMode", "create"} : StartFails(pc)
  \/ StopRecording
  \/ \E s \in Sessions : StopResolved(s)
  \/ \E s \in Sessions : StopNoUri(s)
  \/ \E s \in Sessions : StopThrows(s)
  \/ \E s \in Sessions, ok \in BOOLEAN, inserted \in BOOLEAN : ChainResponse(s, ok, inserted)
  \/ \E s \in Sessions, reply \in PollReplies : PollResponse(s, reply)
  \/ \E s \in Sessions : PollTimer(s)
  \/ \E s \in Sessions : LoadGotItem(s)
  \/ \E s \in Sessions : LoadServed(s)
  \/ \E s \in Sessions : LoadResponse(s)
  \/ \E s \in Sessions : LoadStoredDone(s)
  \/ \E s \in Sessions : LoadFails(s)
  \/ PressClose
  \/ ClearTimer

Spec == Init /\ [][Next]_vars

\* Spec, with every request of a chain eventually answered or failing
SpecLive ==
  Init /\ [][Next]_vars
       /\ \A s \in Sessions :
            WF_vars(\E ok \in BOOLEAN, inserted \in BOOLEAN : ChainResponse(s, ok, inserted))

\* The meeting list: the screen as its mount effect has just run (its
\* permission request and its loadMeetings are in flight), with whatever the
\* last run left in the mirror and whatever the backend holds now
InitList ==
  /\ InitIdle
  /\ OthersIdle
  /\ hasPermission = FALSE
  /\ mountPerm = "pending"
  /\ server \in SUBSET OldIds
  /\ stored \in {<<>>} \cup {<<L>> : L \in SUBSET OldIds}
  /\ meetings = {}
  /\ loadPc = [l \in LoadIds |-> IF l = MountLoad THEN "getItem" ELSE "off"]
  /\ loadVal = [l \in LoadIds |-> IF l = MountLoad THEN stored ELSE <<>>]

NextList ==
  \/ \E status \in PermStatuses : MountPermResult(status)
  \/ MountPermThrows
  \/ \E l \in RefreshLoads : Refresh(l)
  \/ \E l \in {MountLoad} \cup RefreshLoads : LoadGotItem(l)
  \/ \E l \in {MountLoad} \cup RefreshLoads : LoadServed(l)
  \/ \E l \in {MountLoad} \cup RefreshLoads : LoadResponse(l)
  \/ \E l \in {MountLoad} \cup RefreshLoads : LoadStoredDone(l)
  \/ \E l \in {MountLoad} \cup RefreshLoads : LoadFails(l)
  \/ \E id \in OldIds : DeleteMeeting(id)
  \/ \E id \in OldIds : DeleteResponse(id)
  \/ \E id \in OldIds, handled \in BOOLEAN : DeleteFails(id, handled)
  \/ \E id \in OldIds : DeleteStoredDone(id)
  \/ PressClose
  \/ PressDelete
  \/ ClearTimer

SpecList == InitList /\ [][NextList]_vars

\* One loadMeetings at a time: the mount effect as in InitList, and a
\* pull-to-refresh only once the load before it has returned; no delete
RefreshAlone(l) ==
  /\ \A k \in LoadIds : loadPc[k] = "off"
  /\ Refresh(l)

NextLoad ==
  \/ \E status \in PermStatuses : MountPermResult(status)
  \/ MountPermThrows
  \/ \E l \in RefreshLoads : RefreshAlone(l)
  \/ \E l \in {MountLoad} \cup RefreshLoads : LoadGotItem(l)
  \/ \E l \in {MountLoad} \cup RefreshLoads : LoadServed(l)
  \/ \E l \in {MountLoad} \cup RefreshLoads : LoadResponse(l)
  \/ \E l \in {MountLoad} \cup RefreshLoads : LoadStoredDone(l)
  \/ \E l \in {MountLoad} \cup RefreshLoads : LoadFails(l)
  \/ PressClose
  \/ ClearTimer

SpecLoad == InitList /\ [][NextLoad]_vars

\* The recording controller and the chain with the backend's processing: as
\* Spec, with the duration timer, pause and resume, and the backend's task in
\* place of the status polling
NextRec ==
  \/ StartRecording
  \/ \E status \in PermStatuses : StartPermResult(status)
  \/ StartPermThrows
  \/ StartAudioMode
  \/ StartCreated
  \/ \E pc \in {"audioMode", "create"} : StartFails(pc)
  \/ Tick
  \/ PauseRecording
  \/ ResumeRecording
  \/ PauseResolved
  \/ PauseFails
  \/ StopRecording
  \/ \E s \in Sessions : StopResolved(s)
  \/ \E s \in Sessions : StopNoUri(s)
  \/ \E s \in Sessions : StopThrows(s)
  \/ \E s \in Sessions, ok \in BOOLEAN, inserted \in BOOLEAN : ChainResponse(s, ok, inserted)
  \/ \E s \in Sessions, outcome \in {"completed", "error"} : BackendProcesses(s, outcome)
  \/ PressClose
  \/ ClearTimer

SpecRec == Init /\ [][NextRec]_vars

\* the list screen idle, with nothing on it
IndexIdle ==
  /\ InitIdle
  /\ hasPermission = FALSE /\ mountPerm = "done"
  /\ server = {} /\ meetings = {} /\ stored = <<>>
  /\ loadPc = [l \in LoadIds |-> "off"]
  /\ loadVal = [l \in LoadIds |-> <<>>]

\* The details screen as its mount effect has just run (loadMeeting is in
\* flight), for a meeting of any status with up to one question answered, or
\* for an id the backend does not know
InitDetails ==
  /\ IndexIdle /\ BadgeIdle /\ ThemeIdle
  /\ meeting = <<>> /\ loading = TRUE /\ question = "" /\ askingQuestion = FALSE
  /\ detPc = "fetch" /\ detVal = <<>>
  /\ askPc = "off" /\ askSnap = [meeting |-> <<>>, question |-> ""] /\ askVal = <<>>
  /\ srvDoc \in {<<>>} \cup
       {<<[status |-> st, qa |-> qa]>> :
          st \in Statuses, qa \in {<<>>, <<[question |-> "q", n |-> 1]>>}}
  /\ lastAlert = "" /\ onScreen = TRUE

NextDetails ==
  \/ LoadMeetingServed
  \/ LoadMeetingResponse
  \/ LoadMeetingFails
  \/ \E q \in Questions : SetQuestion(q)
  \/ AskQuestion
  \/ AskServed
  \/ AskResponse
  \/ AskFails
  \/ GoBack

SpecDetails == InitDetails /\ [][NextDetails]_vars

\* askQuestion by itself: the loaded screen with any meeting (or none) and any
\* text in the question state, and askQuestion called whatever the ask button
\* would allow (pressing the button reaches only calls that pass both tests)
InitAsk ==
  /\ IndexIdle /\ BadgeIdle /\ ThemeIdle
  /\ meeting \in {<<>>} \cup
       {<<[status |-> st, qa |-> qa]>> :
          st \in Statuses, qa \in {<<>>, <<[question |-> "q", n |-> 1]>>}}
  /\ srvDoc = meeting
  /\ loading = FALSE /\ question \in Questions /\ askingQuestion = FALSE
  /\ detPc = "off" /\ detVal = <<>>
  /\ askPc = "off" /\ askSnap = [meeting |-> <<>>, question |-> ""] /\ askVal = <<>>
  /\ lastAlert = "" /\ onScreen = TRUE

NextAsk ==
  \/ askQuestion
  \/ \E q \in Questions : SetQuestion(q)
  \/ AskServed
  \/ AskResponse
  \/ AskFails

SpecAsk == InitAsk /\ [][NextAsk]_vars

\* The app started for the first time: no mode was ever saved
InitTheme ==
  /\ IndexIdle /\ BadgeIdle /\ DetailIdle
  /\ themeMode = "system"
  /\ systemColorScheme \in Schemes
  /\ mountScheme = systemColorScheme
  /\ theme = getTheme("system", systemColorScheme)
  /\ themeStored \in ForeignStored
  /\ themeLoadPc = "get"
  /\ themeLoadVal = themeStored
  /\ themeEffect = TRUE
  /\ themeSaves = 0
  /\ themeChosen = FALSE

NextTheme ==
  \/ StartApp
  \/ LoadThemeGot
  \/ \E mode \in ThemeModes : SetThemeMode(mode)
  \/ SchemeChanges
  \/ ThemeEffect
  \/ ThemeSaved

SpecTheme == InitTheme /\ [][NextTheme]_vars

\* Status badges: up to MaxRows meetings of any status, rendered by the three
\* screens in any order
InitBadge ==
  /\ IndexIdle
  /\ rows \in UNION {[1..n -> StatusValues] : n \in 0..MaxRows}
  /\ badges = [list |-> <<>>, first |-> <<>>, details |-> <<>>]
  /\ DetailIdle /\ ThemeIdle

NextBadge ==
  \/ RenderList
  \/ RenderListFirst
  \/ RenderDetails

SpecBadge == InitBadge /\ [][NextBadge]_vars

\* ---- properties ----

\* the events of chainLog that are requests of the chain
IsRequest(e) == e \in ChainSteps

Count(log, e) == Cardinality({i \in 1..Len(log) : log[i] = e})

Failed(s) == Count(chainLog[s], "fail") > 0

\* C1: the three requests of processRecording are issued in the order create,
\* upload, trigger, each at most once and each later one only right after the
\* ok response of the one before; after a failed response no request of the
\* chain is issued and no status polling is started (polling starts only
\* behind the ok response of the trigger request).
C1_ChainInOrder ==
  \A s \in Sessions :
    LET log == chainLog[s] IN
    /\ \A e \in ChainSteps : Count(log, e) <= 1
    /\ \A i \in 1..Len(log) :
         /\ log[i] = "create" => i = 1
         /\ log[i] = "upload" => (i = 3 /\ log[1] = "create" /\ log[2] = "ok")
         /\ log[i] = "trigger" => (i = 5 /\ log[3] = "upload" /\ log[4] = "ok")
         /\ log[i] = "poll" => (i > 6 /\ log[5] = "trigger" /\ log[6] = "ok")
         /\ log[i] = "fail" => \A j \in (i + 1)..Len(log) : ~IsRequest(log[j]) /\ log[j] # "poll"
    /\ stage[s] \in ChainSteps => log[Len(log)] = stage[s]
    /\ loop[s] # "off" => Count(log, "poll") = 1
    /\ Failed(s) => (loop[s] = "off" /\ requests[s] = 0 /\ stage[s] = "finished")

\* one chain ran to the start of polling and another one failed at its upload
C1_Witness ==
  \E s, t \in Sessions :
    /\ Count(chainLog[s], "poll") = 1 /\ loop[s] # "off"
    /\ chainLog[t] = <<"create", "ok", "upload", "fail", "dlg:Failed to process recording">>

\* a step of the chain of session s: from the call of processRecording to the
\* handling of its last response
ChainStepOf(s) ==
  \/ stage[s] = "stopping" /\ stage'[s] = "create"
  \/ stage[s] \in ChainSteps /\ stage'[s] # stage[s]

\* C2: a chain with a failed step has shown exactly one alert, 'Failed to
\* process recording', in the step that handled the failure, and no step of a
\* chain changes the in-memory meeting list or the persisted mirror.
C2_OneErrorDialog ==
  /\ [](\A s \in Sessions :
          Failed(s) =>
            /\ Count(chainLog[s], "fail") = 1
            /\ {i \in 1..Len(chainLog[s]) :
                  chainLog[s][i] \notin ChainSteps \cup {"ok", "fail", "poll"}}
                 = {Len(chainLog[s])}
            /\ chainLog[s][Len(chainLog[s])] = "dlg:Failed to process recording"
            /\ chainLog[s][Len(chainLog[s]) - 1] = "fail")
  /\ [][\A s \in Sessions :
          ChainStepOf(s) =>
            /\ meetings' = meetings /\ stored' = stored
            /\ Failed(s)' /\ ~Failed(s) =>
                 shownNow' = <<"Failed to process recording">>]_vars

\* a chain has just failed at its trigger step and its one alert is up
C2_Witness ==
  \E s \in Sessions :
    /\ chainLog[s] = <<"create", "ok", "upload", "ok", "trigger", "fail",
                       "dlg:Failed to process recording">>
    /\ shownNow = <<"Failed to process recording">>
    /\ alertConfig = Alert("Failed to process recording") /\ visible
    /\ meetings = OldIds /\ stored = <<OldIds>>

\* C3: a poll loop issues at most maxAttempts status requests, counted per
\* loop; when its attempt counter reaches maxAttempts the loop has ended, has
\* shown 'Timeout' exactly once and nothing else, and no poll is scheduled.
C3_PollBounded ==
  \A s \in Sessions :
    /\ requests[s] <= maxAttempts
    /\ attempts[s] <= maxAttempts
    /\ loop[s] \in {"timer", "inflight"} => attempts[s] < maxAttempts
    /\ attempts[s] = maxAttempts <=> result[s] = "timeout"
    /\ result[s] = "timeout" =>
         /\ loop[s] = "ended"
         /\ requests[s] = maxAttempts
         /\ loopDlg[s] = <<"Timeout">>

\* one loop has timed out after maxAttempts requests while another loop, which
\* was polling at the same time, is still in the middle of its own count
C3_Witness ==
  \E s, t \in Sessions :
    /\ result[s] = "timeout" /\ requests[s] = maxAttempts
    /\ loop[t] = "inflight" /\ requests[t] = 2

\* C4: once a status reply reported 'completed', no status request of that
\* loop is in flight, no poll timer is scheduled, and no further status request
\* is issued; the reply came within the maxAttempts requests of the loop.
C4_StopsOnCompleted ==
  /\ [](\A s \in Sessions :
          /\ result[s] = "completed" =>
               (loop[s] \in {"load", "ended"} /\ Count(chainLog[s], "poll") = 1)
          /\ loop[s] = "inflight" => requests[s] \in 1..maxAttempts)
  /\ [][\A s \in Sessions :
          result[s] = "completed" =>
            (result'[s] = "completed" /\ requests'[s] = requests[s])]_vars

\* a loop got 'completed', refreshed the list and ended with 'Processing
\* Complete'
C4_Witness ==
  \E s \in Sessions :
    /\ result[s] = "completed" /\ loop[s] = "ended"
    /\ loopDlg[s] = <<"Processing Complete">>

\* C5: a poll loop that has ended did so on a terminal status or on the
\* attempt bound, and has shown exactly one of 'Processing Complete', 'Error'
\* (failed to process meeting) or 'Timeout'.
C5_EndsWithDialog ==
  \A s \in Sessions :
    loop[s] = "ended" =>
      /\ result[s] \in {"completed", "error", "timeout"}
      /\ Len(loopDlg[s]) = 1
      /\ loopDlg[s][1] \in {"Processing Complete", "Failed to process meeting", "Timeout"}

\* nothing of session s is in flight or scheduled: no request of its chain, no
\* status request, no poll timer
Terminal(s) == stage[s] \notin ChainSteps /\ loop[s] \notin {"inflight", "timer", "load"}

\* C6 as stated: a failure (a response that is not ok, or a rejected fetch) at
\* any step of create, upload, trigger or poll is terminal for the session.
C6_FailureTerminal ==
  [][\A s \in Sessions :
       ((\E ins \in BOOLEAN : ChainResponse(s, FALSE, ins))
          \/ PollResponse(s, "bad") \/ PollResponse(s, "throw"))
         => Terminal(s)']_vars

\* C6, amended: a failure at a step of the create/upload/trigger chain is
\* terminal for the session (no later request, no polling), and so is a status
\* request whose fetch rejects; a status response that is not ok is not
\* terminal: it counts as an attempt, and the next poll is scheduled unless
\* that was attempt maxAttempts.
C6_FailureTerminalInChain ==
  [][\A s \in Sessions :
       /\ (\E ins \in BOOLEAN : ChainResponse(s, FALSE, ins)) =>
            (Terminal(s)' /\ loop'[s] = "off" /\ requests'[s] = 0)
       /\ PollResponse(s, "throw") => (Terminal(s)' /\ loop'[s] = "ended")
       /\ PollResponse(s, "bad") =>
            /\ attempts'[s] = attempts[s] + 1
            /\ loop'[s] = IF attempts[s] + 1 < maxAttempts THEN "timer" ELSE "ended"]_vars

\* after a status response that was not ok, the next status request is in flight
C6_Witness ==
  \E s \in Sessions :
    result[s] = "bad" /\ loop[s] = "inflight" /\ requests[s] = 2 /\ attempts[s] = 1

\* C7: a startRecording invoked without permission whose permission request
\* is refused creates no recording (recording and isRecording are as before,
\* no handle is created, the invocation ends) and calls showAlert exactly
\* once, with 'Permission Required'.
C7_RefusedNoRecording ==
  [][\A status \in PermStatuses \ {"granted"} :
       StartPermResult(status) =>
         /\ recording' = recording /\ isRecording' = isRecording
         /\ nextSess' = nextSess /\ stage' = stage
         /\ StartsInFlight' = StartsInFlight - 1
         /\ starts'["audioMode"] = starts["audioMode"]
         /\ starts'["create"] = starts["create"]
         /\ ~hasPermission'
         /\ shownNow' = <<"Permission Required">>
         /\ alertConfig' = Alert("Permission Required") /\ visible']_vars

\* the refusal has just been handled: the alert is up and nothing is recording
C7_Witness ==
  /\ shownNow = <<"Permission Required">>
  /\ alertConfig = Alert("Permission Required") /\ visible
  /\ ~hasPermission /\ recording = 0 /\ ~isRecording /\ StartsInFlight = 0

\* C8: a start action during which the permission is (or already was) granted
\* ends with a recording handle held, isRecording true, isPaused false and the
\* duration at 0.  The start action ends either when its permission request
\* is answered or when createAsync resolves.
C8_StartBeginsCapture ==
  [][(StartPermResult("granted") \/ StartCreated) =>
       (recording' # 0 /\ isRecording' /\ ~isPaused' /\ recordingDuration' = 0)]_vars

\* the persisted mirror holds list L
MirrorIs(L) == stored = <<L>>

InMirror(id) == stored # <<>> /\ id \in stored[1]

\* C9: when a confirmed deleteMeeting whose DELETE request returned success
\* has finished, the meeting's id is neither in the in-memory list nor in the
\* persisted mirror.
C9_DeletedAbsent ==
  [][\A id \in MeetingIds :
       DeleteStoredDone(id) => (id \notin meetings' /\ ~InMirror(id)')]_vars

\* no loadMeetings and no Delete onPress is between its call and its return
NoHandlerInFlight ==
  /\ \A l \in LoadIds : loadPc[l] = "off"
  /\ \A id \in MeetingIds : delPc[id] = "off"

\* C10: whenever no handler is in flight, the persisted mirror equals the
\* in-memory list (a mirror that was never written counts as the empty list).
C10_MirrorEqualsList ==
  NoHandlerInFlight => (MirrorIs(meetings) \/ (stored = <<>> /\ meetings = {}))

\* C11: a successful server response with list L makes loadMeetings set the
\* in-memory list to L and write L to the mirror; when a loadMeetings that ran
\* alone returns after such a response, list = mirror = L (L is the backend's
\* list, which nothing changes while the load runs alone).
C11_LoadMirrorsServer ==
  [][\A l \in {MountLoad} \cup RefreshLoads :
       /\ LoadResponse(l) => (meetings' = loadVal[l][1] /\ stored' = loadVal[l])
       /\ LoadStoredDone(l) => (meetings' = server /\ stored' = <<server>>)]_vars

\* the mount load has just handled the server's list, which differs from what
\* the mirror held when the screen was mounted (the list was empty then)
C11_Witness ==
  /\ loadPc[MountLoad] = "setItem"
  /\ server = OldIds /\ meetings = OldIds /\ stored = <<OldIds>>

\* C12: a loadMeetings (running alone) whose fetch fails or whose response is
\* not ok returns with the mirror as it was, with the in-memory list equal to
\* the persisted list when there is one (else as it was), and shows no alert.
C12_LoadFailureKeepsMirror ==
  [][\A l \in {MountLoad} \cup RefreshLoads :
       LoadFails(l) =>
         /\ stored' = stored
         /\ stored # <<>> => meetings' = stored[1]
         /\ stored = <<>> => meetings' = meetings
         /\ shownNow' = <<>>
         /\ alertConfig' = alertConfig /\ visible' = visible]_vars

\* the mount load has failed: the list shows the two meetings of the mirror,
\* which the backend does not hold
C12_Witness ==
  /\ \A l \in LoadIds : loadPc[l] = "off"
  /\ server = {} /\ meetings = OldIds /\ stored = <<OldIds>>

\* the alerts of the error taxonomy: permission refused, a failed chain step,
\* the backend's 'error' status, the poll timeout
ErrorTitles ==
  {"Permission Required", "Failed to process recording",
   "Failed to process meeting", "Timeout"}

\* C13: a step that calls showAlert for an error condition leaves that alert
\* up, and an error alert that is up stays up, unchanged, until a step in
\* which the user presses its button.
C13_ErrorDialogStays ==
  [][/\ \A i \in 1..Len(shownNow') :
           shownNow'[i] \in ErrorTitles =>
             (alertConfig'.title = shownNow'[i] /\ visible')
     /\ (ModalUp /\ alertConfig.title \in ErrorTitles) =>
           (PressClose \/ (alertConfig' = alertConfig /\ visible'))]_vars

\* C17: of the steps of deleteMeeting only the handling of a successful DELETE
\* response, which follows a press of 'Delete', changes the in-memory list or
\* the mirror: showing the confirmation, 'Cancel', the press of 'Delete'
\* itself, a failed DELETE and the final 'Success' alert leave both as they
\* are, and 'Cancel' sends no request.
C17_DeleteOnlyOnSuccess ==
  [][/\ \A id \in MeetingIds :
          /\ (DeleteMeeting(id) \/ DeleteStoredDone(id)
                 \/ \E handled \in BOOLEAN : DeleteFails(id, handled))
               => (meetings' = meetings /\ stored' = stored)
          /\ DeleteMeeting(id) => delPc' = delPc
          /\ DeleteResponse(id) =>
               (delPc[id] = "fetch" /\ meetings' = meetings \ {id} /\ ~InMirror(id)')
          /\ (delPc[id] = "off" /\ delPc'[id] = "fetch") => PressDelete
     /\ PressDelete => (meetings' = meetings /\ stored' = stored)
     /\ (PressClose /\ alertConfig.title = "Delete Meeting") =>
           (meetings' = meetings /\ stored' = stored /\ delPc' = delPc)]_vars

\* a confirmed delete has just failed: its alert is up, the meeting is still
\* in the list and in the mirror
C17_Witness ==
  /\ alertConfig = Alert("Failed to delete meeting") /\ visible
  /\ shownNow = <<"Failed to delete meeting">>
  /\ \A id \in MeetingIds : delPc[id] = "off"
  /\ meetings = OldIds /\ stored = <<OldIds>>

\* C19: the create request is the first event of a session's handler and is
\* issued in the step in which stopAndUnloadAsync has resolved and getURI gave
\* a uri; a session whose stop is not finalized has issued nothing; when the
\* finalization fails the handler shows 'Failed to stop recording' and issues
\* no request, then or later; when there is no uri it issues none either.
C19_ChainAfterFinalize ==
  /\ [](\A s \in Sessions :
          /\ stage[s] \in {"none", "held", "stopping"} =>
               (chainLog[s] = <<>> /\ loop[s] = "off")
          /\ (chainLog[s] # <<>> /\ chainLog[s][1] = "dlg:Failed to stop recording") =>
               (Len(chainLog[s]) = 1 /\ loop[s] = "off" /\ stage[s] = "finished")
          /\ (stage[s] = "finished" /\ chainLog[s] = <<>>) => loop[s] = "off")
  /\ [][\A s \in Sessions :
          /\ (chainLog[s] = <<>> /\ chainLog'[s] # <<>>) =>
               (StopResolved(s) \/ StopThrows(s))
          /\ StopResolved(s) => chainLog'[s] = <<"create">>
          /\ StopThrows(s) =>
               /\ chainLog'[s] = <<"dlg:Failed to stop recording">>
               /\ shownNow' = <<"Failed to stop recording">>
               /\ alertConfig' = Alert("Failed to stop recording") /\ visible'
          /\ StopNoUri(s) => (chainLog'[s] = <<>> /\ stage'[s] = "finished")]_vars

\* one session's finalization failed and its alert is up; another session was
\* finalized and its chain is running
C19_Witness ==
  \E s, t \in Sessions :
    /\ chainLog[s] = <<"dlg:Failed to stop recording">>
    /\ chainLog[t] # <<>> /\ chainLog[t][1] = "create"

\* the documented order of the statuses: one step forward at a time, 'error'
\* from 'uploaded' or 'processing' only
StatusSteps ==
  {<<"none", "recording">>, <<"recording", "uploaded">>, <<"uploaded", "processing">>,
   <<"processing", "completed">>, <<"uploaded", "error">>, <<"processing", "error">>}

\* C18: every change of the backend's status of a session's meeting is one
\* step forward in the order recording -> uploaded -> processing -> completed,
\* or a step from 'uploaded' or 'processing' to 'error'; no request of the
\* client moves it back.
C18_StatusMovesForward ==
  [][\A s \in Sessions :
       srvStatus'[s] # srvStatus[s] => <<srvStatus[s], srvStatus'[s]>> \in StatusSteps]_vars

\* one meeting went all the way to 'completed', another one ended in 'error'
C18_Witness ==
  \E s, t \in Sessions : srvStatus[s] = "completed" /\ srvStatus[t] = "error"

\* C20: recordingDuration is set to 0 by the step that starts a recording,
\* goes up by one only in a step taken while isRecording and not isPaused, is
\* not changed by a step taken while the recording is and stays paused, and
\* is 0 after every step that ends a stopRecording.
C20_DurationTracksRecording ==
  [][/\ StartCreated => recordingDuration' = 0
     /\ recordingDuration' > recordingDuration =>
          (isRecording /\ ~isPaused /\ recordingDuration' = recordingDuration + 1)
     /\ (isRecording /\ isPaused /\ isRecording' /\ isPaused') =>
          recordingDuration' = recordingDuration
     /\ \A s \in Sessions :
          (stage[s] \in {"stopping"} \cup ChainSteps /\ stage'[s] = "finished") =>
            recordingDuration' = 0]_vars

\* C14: every rendered badge is green (#34C759) for 'completed', orange
\* (#FF9500) for 'processing', red (#FF3B30) for 'error' and gray (#8E8E93)
\* for any other status, and the three screens render the same colour for the
\* same meeting.
C14_StatusColors ==
  LET want(st) == IF st = "completed" THEN "#34C759"
                  ELSE IF st = "processing" THEN "#FF9500"
                  ELSE IF st = "error" THEN "#FF3B30"
                  ELSE "#8E8E93"
      ok(col) == \A i \in 1..Len(col) : col[i] = want(rows[i])
  IN /\ ok(badges.list) /\ ok(badges.first) /\ ok(badges.details)
     /\ \A i \in 1..Len(rows) :
          (Len(badges.list) = Len(rows) /\ Len(badges.details) = Len(rows)
             /\ Len(badges.first) = Len(rows)) =>
            (badges.list[i] = badges.details[i] /\ badges.list[i] = badges.first[i])

\* all three screens have rendered a 'processing' meeting and one whose
\* status is 'Completed' with a capital
C14_Witness ==
  /\ rows = <<"processing", "Completed">>
  /\ badges.list = <<"#FF9500", "#8E8E93">>
  /\ badges.details = badges.list /\ badges.first = badges.list

\* the question/answer list of a meeting state (none while no meeting is loaded)
QaOf(m) == IF m = <<>> THEN <<>> ELSE m[1].qa

IsPrefix(a, b) == Len(a) <= Len(b) /\ SubSeq(b, 1, Len(a)) = a

\* C15: every step of the details screen keeps the entries the meeting on
\* screen already has, in their order, at the front of its list (so the list
\* never gets shorter), and the step that handles a successful askQuestion
\* appends exactly the returned entry at the end.
C15_AnswersAppended ==
  [][/\ meeting # <<>> => (meeting' # <<>> /\ IsPrefix(QaOf(meeting), QaOf(meeting')))
     /\ AskResponse => QaOf(meeting') = Append(QaOf(meeting), askVal[1])]_vars

\* a second question has been answered: both entries are on screen in the
\* order they were asked, as the backend holds them
C15_Witness ==
  /\ Len(QaOf(meeting)) = 2 /\ QaOf(meeting)[1].n = 1 /\ QaOf(meeting)[2].n = 2
  /\ QaOf(meeting) = srvDoc[1].qa
  /\ askPc = "off" /\ question = "" /\ ~askingQuestion

\* the mode a persisted value stands for: itself if it is one of the three
\* modes, 'system' otherwise
ModeOf(v) == IF v # <<>> /\ v[1] \in ThemeModes THEN v[1] ELSE "system"

\* C16: setThemeMode(m) leaves m persisted under 'themeMode' (and as the mode),
\* and the load of a startup during which no mode was chosen yet leaves the
\* mode at the persisted value if that is light, dark or system, and at
\* 'system' if it is anything else or absent.
C16_ThemeModeRoundTrip ==
  [][/\ \A mode \in ThemeModes :
          SetThemeMode(mode) => (themeStored' = <<mode>> /\ themeMode' = mode)
     /\ (LoadThemeGot /\ ~themeChosen) =>
          (themeMode' = ModeOf(themeStored) /\ themeStored' = themeStored)]_vars

\* 'dark' was chosen in an earlier run and the load of this run has restored
\* it, on a device whose system scheme is light
C16_Witness ==
  /\ ~themeChosen /\ themeLoadPc = "off"
  /\ themeMode = "dark" /\ themeStored = <<"dark">>
  /\ systemColorScheme = "light" /\ mountScheme = "light"

\* a foreign value is persisted and the load has left the mode at 'system'
C16_WitnessForeign ==
  /\ ~themeChosen /\ themeLoadPc = "off"
  /\ themeMode = "system" /\ themeStored = <<"blue">>

\* C21 as stated: while a recording is held the client's meeting list holds a
\* meeting for it (the placeholder created on start), and the backend holds
\* the meeting of a session only once its upload request was issued.
C21_PlaceholderOnStart ==
  \A s \in Sessions :
    /\ stage[s] \in {"held", "stopping"} => s \in meetings
    /\ s \in server => Count(chainLog[s], "upload") > 0

\* C21, amended: starting a recording leaves the client's meeting list as it
\* is, and neither the list nor the backend holds a meeting for a recording
\* that is held or being stopped; the backend's record appears in the step
\* that handles the create request of processRecording, before any upload.
C21_CreatedByChain ==
  /\ [](\A s \in Sessions :
          stage[s] \in {"held", "stopping"} => (s \notin meetings /\ s \notin server))
  /\ [][\A s \in Sessions :
          /\ (stage[s] # "held" /\ stage'[s] = "held") =>
               (meetings' = meetings /\ stored' = stored /\ server' = server)
          /\ (s \notin server /\ s \in server') =>
               (stage[s] = "create" /\ Count(chainLog[s], "upload") = 0)]_vars

\* a recording was made and stopped, the backend has created its meeting and
\* the upload is in flight, while the client's list is what it was before
C21_Witness ==
  \E s \in Sessions :
    /\ stage[s] = "upload" /\ s \in server
    /\ meetings = OldIds /\ stored = <<OldIds>>

\* C22: whenever isRecording is true a recording handle is held, and a step
\* that ends a stopRecording leaves the handle of a recording started after
\* that stop in place.
C22_HandleHeldWhileRecording ==
  /\ [](isRecording => recording # 0)
  /\ [][\A s \in Sessions :
          (stage[s] \in {"stopping"} \cup ChainSteps /\ stage'[s] = "finished"
             /\ recording # 0 /\ recording # s)
            => recording' = recording]_vars

\* the create/upload/trigger chain of session s is in flight
ChainInFlight(s) == stage[s] \in ChainSteps

\* C23: isProcessing is true exactly while a chain is in flight, and at most
\* one chain is in flight at a time.
C23_ProcessingIffChain ==
  /\ isProcessing <=> (\E s \in Sessions : ChainInFlight(s))
  /\ Cardinality({s \in Sessions : ChainInFlight(s)}) <= 1

\* C24: whenever visible is true alertConfig is not null, and an alert that
\* is configured and visible stays so in every step that is not a press of
\* one of its buttons (hideAlert).
C24_VisibleHasConfig ==
  /\ [](visible => alertConfig # NoAlert)
  /\ [][(ModalUp /\ ~(PressClose \/ PressDelete)) => (visible' /\ alertConfig' = alertConfig)]_vars

\* C25: whenever no theme load and no effect is pending, themeMode is one of
\* the three modes and the active theme is the one the mode stands for under
\* the current system colour scheme.
C25_ThemeAgreesWithMode ==
  (themeLoadPc = "off" /\ ~themeEffect) =>
     (themeMode \in ThemeModes /\ theme = getTheme(themeMode, systemColorScheme))

\* C26: whenever no load of the saved preference and no save is in flight,
\* the in-memory themeMode is the persisted mode ('system' while nothing, or
\* nothing that is a mode, is persisted).
C26_ModeIsPersisted ==
  (themeLoadPc = "off" /\ themeSaves = 0) => themeMode = ModeOf(themeStored)

\* C27: isPaused implies isRecording in every reachable state, and the press
\* of pause or resume leaves isPaused as it is: it changes only once the
\* platform call has resolved (or by a stop or a new recording).
C27_PausedImpliesRecording ==
  /\ [](isPaused => isRecording)
  /\ [][(PauseRecording \/ ResumeRecording \/ PauseFails) => isPaused' = isPaused]_vars

\* C28: a poll loop that received 'completed' calls loadMeetings and shows
\* 'Processing Complete' only in the step in which that loadMeetings returns
\* (while it runs no such dialog of the loop is up: the response of its GET,
\* when it arrives ok, has replaced the list by the server's, which holds the
\* meeting of the session); the loop shows that dialog once, never twice.
C28_RefreshBeforeComplete ==
  /\ [](\A s \in Sessions :
          /\ Count(loopDlg[s], "Processing Complete") <= 1
          /\ loop[s] = "load" =>
               /\ result[s] = "completed" /\ loadPc[s] # "off"
               /\ Count(loopDlg[s], "Processing Complete") = 0
          /\ (loop[s] = "ended" /\ result[s] = "completed") =>
               (loadPc[s] = "off" /\ loopDlg[s] = <<"Processing Complete">>))
  /\ [][\A s \in Sessions :
          /\ Count(loopDlg'[s], "Processing Complete") > Count(loopDlg[s], "Processing Complete") =>
               /\ loop[s] = "load" /\ loop'[s] = "ended"
               /\ loadPc[s] \in {"setItem", "fetch", "resp"} /\ loadPc'[s] = "off"
               /\ shownNow' = <<"Processing Complete">>
          /\ (loadPc[s] = "resp" /\ loadPc'[s] = "setItem") =>
               (meetings' = loadVal[s][1] /\ stored' = loadVal[s] /\ s \in meetings')]_vars

\* the loop of a session got 'completed', its loadMeetings has put the
\* session's meeting into the list and the mirror, and 'Processing Complete'
\* is up
C28_Witness ==
  \E s \in Sessions :
    /\ result[s] = "completed" /\ loop[s] = "ended" /\ loadPc[s] = "off"
    /\ s \in meetings /\ stored = <<meetings>>
    /\ alertConfig = Alert("Processing Complete") /\ visible
    /\ shownNow = <<"Processing Complete">>

\* C29: every chain in flight leads to a state in which it has ended and
\* isProcessing is false; the step that ends a chain, on the ok response of
\* the trigger request as on a failure at any step, sets isProcessing to
\* false, and on success it does so while the poll loop it started still has
\* its first status request in flight.
C29_ProcessingEnds ==
  /\ \A s \in Sessions : ChainInFlight(s) ~> (stage[s] = "finished" /\ ~isProcessing)
  /\ [][\A s \in Sessions :
          (ChainInFlight(s) /\ ~ChainInFlight(s)') =>
            /\ ~isProcessing' /\ stage'[s] = "finished"
            /\ (~Failed(s)' => loop'[s] = "inflight")]_vars

\* a chain has succeeded: isProcessing is false again while its poll loop is
\* still waiting for its first reply; another chain has failed at its upload
C29_Witness ==
  \E s, t \in Sessions :
    /\ stage[s] = "finished" /\ ~Failed(s) /\ loop[s] = "inflight" /\ requests[s] = 1
    /\ stage[t] = "finished"
    /\ chainLog[t] = <<"create", "ok", "upload", "fail", "dlg:Failed to process recording">>
    /\ ~isProcessing

\* the tests of askQuestion pass: the trimmed question is not empty and a
\* meeting with status 'completed' is loaded
AskAllowed ==
  Trim(question) # "" /\ meeting # <<>> /\ meeting[1].status = "completed"

\* C30: askQuestion issues its request only when the trimmed question is not
\* empty and the loaded meeting is 'completed', and sends the trimmed
\* question; called otherwise it shows an alert, issues nothing and changes
\* nothing else; a failed request shows an alert and leaves the meeting and
\* the typed question as they are; askingQuestion is true exactly while an
\* invocation is between its fetch and its end.
C30_AskGuarded ==
  /\ [](askingQuestion <=> askPc # "off")
  /\ [][/\ (askPc = "off" /\ askPc' # "off") =>
            (AskAllowed /\ askSnap'.question = Trim(question) /\ askSnap'.question # "")
        /\ (askQuestion /\ ~AskAllowed) =>
            /\ lastAlert' \in {"Please enter a question",
                               "Meeting must be processed before asking questions"}
            /\ askPc' = "off" /\ srvDoc' = srvDoc
            /\ meeting' = meeting /\ question' = question /\ ~askingQuestion'
        /\ AskFails =>
            /\ lastAlert' # ""
            /\ meeting' = meeting /\ question' = question /\ ~askingQuestion']_vars

\* a request failed after the backend had answered the question: the alert was
\* shown, the typed question is still there, the meeting on screen is without
\* the new entry and askingQuestion is false
C30_Witness ==
  /\ lastAlert = "Failed to ask question" /\ askPc = "off" /\ ~askingQuestion
  /\ question = " q " /\ askSnap.question = "q"
  /\ Len(srvDoc[1].qa) = Len(meeting[1].qa) + 1

\* askQuestion was called with a question for a meeting that is still being
\* processed: the alert was shown and nothing was sent
C30_WitnessRefused ==
  /\ lastAlert = "Meeting must be processed before asking questions"
  /\ askPc = "off" /\ ~askingQuestion /\ question = "q"
  /\ meeting # <<>> /\ meeting[1].status = "processing" /\ srvDoc = meeting

====
